---- MODULE Spec2Model ----
(***************************************************************************)
(* The per-frame lane tracker of p2.py: the Line class and its validity    *)
(* gate, the cross-validation of find_lane_pixels, the frame history       *)
(* FRAMES with getLastValidLines, the cached perspective transform and     *)
(* process_frame.                                                          *)
(*                                                                         *)
(* Numbers.  The program computes in float64.  A polynomial coefficient is *)
(* given in tenths (the integer k is the float64 nearest to k / 10), and   *)
(* what the program computes from the coefficients, the slopes and the     *)
(* sampled x values, is computed here in float64 as well, every operation  *)
(* rounded to nearest, ties to even.  Every value that occurs is a         *)
(* multiple of 2^-56 below 2^15 in magnitude, so a float64 is kept as its  *)
(* sign and that multiple in three limbs of 24 bits.  The mean of the      *)
(* coefficients is kept as the sum of the tenths and the number of lines.  *)
(*                                                                         *)
(* Images.  numpy.polyfit and the OpenCV calls are libraries.  A frame is  *)
(* given by its width and height and by what the pixel search finds in it  *)
(* for each side: the number of pixels selected and the polynomial that    *)
(* polyfit fits through them, and by whether the leading coefficient that  *)
(* the second polyfit of the constructor, the one in world space, returns  *)
(* is 0.0.  A matrix of cv2.getPerspectiveTransform is given by the        *)
(* direction and the width and height it was computed from.                *)
(*                                                                         *)
(* Optional values.  None is the empty sequence and a present value v is   *)
(* the one-element sequence <<v>>.                                         *)
(***************************************************************************)
EXTENDS Integers, Sequences, FiniteSets, TLC

VARIABLES
    FRAMES,              \* the global list of Frame objects
    frame_number,        \* the global frame counter
    M,                   \* the global forward perspective matrix, or None
    M_inv,               \* the global inverse perspective matrix, or None
    first_call,          \* width and height of the first getPerspectiveTransform call, or None
    result,              \* how the last process_frame call ended
    strategy,            \* the search branch find_lane_pixels took in the last call
    found,               \* the frame of the last call: its size and the pixels found
    returned,            \* the pairs getPerspectiveTransform returned in the last call
    current_left_line,   \* process_frame's local of that name, or None
    current_right_line,  \* process_frame's local of that name, or None
    avg_left,            \* process_frame's local of that name, or None
    avg_right,           \* process_frame's local of that name, or None
    valid_left_lines,    \* process_frame's local of that name, or None
    valid_right_lines,   \* process_frame's local of that name, or None
    avg_curve            \* the lines whose curvature is in process_frame's avg_curve, or None

vars == <<FRAMES, frame_number, M, M_inv, first_call, result, strategy, found,
          returned, current_left_line, current_right_line, avg_left, avg_right,
          valid_left_lines, valid_right_lines, avg_curve>>

None == <<>>

Some(v) == <<v>>

LEFT == "LEFT"

RIGHT == "RIGHT"

Side == {LEFT, RIGHT}

AVERAGE_OVER_X_FRAMES == 7

MIN_PIXELS_FOR_VALID_LINE == 3000

\* 1.2, in tenths
SLOPE_TOLERANCE == 12

\* the literal 300 of the cross-validation, in pixels
MIN_LANE_GAP == 300

Tenths(px) == px * 10

Abs(x) == IF x < 0 THEN 0 - x ELSE x

\* Python's abs() of a bool: True is 1 and False is 0
AbsOfBool(b) == IF b THEN 1 ELSE 0

\* Python's truth value of an int
Truthy(n) == n # 0

----------------------------------------------------------------------------
(* float64 *)

LimbBase == 2 ^ 24

\* the limbs of l2 * LimbBase^2 + l1 * LimbBase + l0, the two low ones in
\* 0 .. LimbBase - 1
Carry(l2, l1, l0) ==
    <<l2 + ((l1 + (l0 \div LimbBase)) \div LimbBase),
      (l1 + (l0 \div LimbBase)) % LimbBase,
      l0 % LimbBase>>

LessMag(x, y) ==
    \/ x[1] < y[1]
    \/ x[1] = y[1] /\ x[2] < y[2]
    \/ x[1] = y[1] /\ x[2] = y[2] /\ x[3] < y[3]

\* What the last place of the 53 bit significand is worth: bits 48 and up of
\* the magnitude are in its first limb n, 53 bits end below 32 there.
RECURSIVE LastPlace(_)
LastPlace(n) == IF n < 32 THEN 1 ELSE 2 * LastPlace(n \div 2)

\* Round to nearest, ties to even: low and rem / 10 are cut off below the
\* last place, which is worth unit and holds an odd digit or not.
RoundsUp(low, rem, unit, odd) ==
    IF unit = 1
    THEN rem > 5 \/ (rem = 5 /\ odd)
    ELSE 2 * low > unit \/ (2 * low = unit /\ (rem > 0 \/ odd))

\* nothing is cut off from a magnitude that ends at the last place
RoundAt(mag, rem, unit) ==
    IF rem = 0 /\ mag[3] % unit = 0
    THEN mag
    ELSE Carry(mag[1], mag[2],
               (mag[3] - (mag[3] % unit))
                   + (IF RoundsUp(mag[3] % unit, rem, unit, (mag[3] \div unit) % 2 = 1)
                      THEN unit ELSE 0))

Signed(neg, mag) == [neg |-> neg /\ mag # <<0, 0, 0>>, mag |-> mag]

\* the float64 nearest to sign * (mag + rem / 10) * 2^-56
Rounded(neg, mag, rem) == Signed(neg, RoundAt(mag, rem, LastPlace(mag[1])))

\* k * 2^56 divided by 10, limb by limb: the carries into the two low limbs
Quotient(n, v1, v0) == <<n \div 10, v1 \div 10, v0 \div 10>>

Divided(neg, n, v1) ==
    Rounded(neg, Quotient(n, v1, (v1 % 10) * LimbBase), ((v1 % 10) * LimbBase) % 10)

\* the float64 nearest to k / 10, for k = 0 or 0.1 <= |k / 10| < 2^15
Float(k) == Divided(k < 0, Abs(k) * (2 ^ 8), ((Abs(k) * (2 ^ 8)) % 10) * LimbBase)

\* big + small for |big| >= |small|
Added(big, small, sign) ==
    Rounded(big.neg, Carry(big.mag[1] + (sign * small.mag[1]),
                           big.mag[2] + (sign * small.mag[2]),
                           big.mag[3] + (sign * small.mag[3])), 0)

\* x + y
FAdd(x, y) ==
    IF LessMag(x.mag, y.mag)
    THEN Added(y, x, IF x.neg = y.neg THEN 1 ELSE -1)
    ELSE Added(x, y, IF x.neg = y.neg THEN 1 ELSE -1)

\* -x
FNeg(x) == Signed(~x.neg, x.mag)

\* x - y
FSub(x, y) == FAdd(x, FNeg(y))

\* x * k for a float64 k that is a natural number below 2^7
FMul(x, k) == Rounded(x.neg, Carry(x.mag[1] * k, x.mag[2] * k, x.mag[3] * k), 0)

\* abs(x)
FAbs(x) == [x EXCEPT !.neg = FALSE]

\* x < y
FLess(x, y) ==
    IF x.neg # y.neg
    THEN x.neg
    ELSE IF x.neg THEN LessMag(y.mag, x.mag) ELSE LessMag(x.mag, y.mag)

\* np.min
FMin(S) == CHOOSE x \in S : \A y \in S : ~FLess(y, x)

\* the float64 1.2: SLOPE_TOLERANCE, and the literal of isValid
Tolerance == Float(SLOPE_TOLERANCE)

\* the float64 300.0
LaneGap == Float(Tenths(MIN_LANE_GAP))

----------------------------------------------------------------------------
(* class Line *)

\* (2 * a * y) + b
Slope(a, b, y) == FAdd(FMul(FMul(a, 2), y), b)

\* self.curvature = (...) / abs(2 * world_poly[0]): the dividend is 1.0 or
\* more and numpy divides by 0.0 without raising, to inf.
curvature(world_poly) == IF world_poly = "zero" THEN "inf" ELSE "finite"

\* the constructor without its else branch: detected stays as passed
Line_noElse(pixels, height, detected) ==
    IF pixels.n > 0
    THEN LET a == Float(pixels.fit[1])
             b == Float(pixels.fit[2])
         IN  [detected          |-> detected,
              lane_pixels       |-> pixels.n,
              line_coefficients |-> pixels.fit,
              height            |-> height,
              upper_slope       |-> Slope(a, b, 0),
              mid_slope         |-> Slope(a, b, height \div 2),
              lower_slope       |-> Slope(a, b, height - 1),
              curvature         |-> curvature(pixels.world_poly)]
    ELSE [detected          |-> detected,
          lane_pixels       |-> 0,
          line_coefficients |-> <<>>,
          height            |-> 0,
          upper_slope       |-> Float(0),
          mid_slope         |-> Float(0),
          lower_slope       |-> Float(0),
          curvature         |-> "unset"]

\* The constructor.  pixels.n is len(x_pixels) = len(y_pixels), pixels.fit
\* is what np.polyfit(y, x, 2) returns for them, in tenths; height is the
\* image height and fity is 0.0, 1.0, ..., height - 1.  pixels.world_poly
\* says whether world_poly[0] is 0.0.
\* Without pixels no attribute but fitx, fity, the pixels and detected is set:
\* there is no curvature.
Line(pixels, height, detected) ==
    IF pixels.n > 0
    THEN LET a == Float(pixels.fit[1])
             b == Float(pixels.fit[2])
         IN  [detected          |-> detected,
              lane_pixels       |-> pixels.n,
              line_coefficients |-> pixels.fit,
              height            |-> height,
              upper_slope       |-> Slope(a, b, 0),
              mid_slope         |-> Slope(a, b, height \div 2),
              lower_slope       |-> Slope(a, b, height - 1),
              curvature         |-> curvature(pixels.world_poly)]
    ELSE [detected          |-> FALSE,
          lane_pixels       |-> 0,
          line_coefficients |-> <<>>,
          height            |-> 0,
          upper_slope       |-> Float(0),
          mid_slope         |-> Float(0),
          lower_slope       |-> Float(0),
          curvature         |-> "unset"]

\* line_coefficients, in float64
Coefficients(line) ==
    <<Float(line.line_coefficients[1]), Float(line.line_coefficients[2]),
      Float(line.line_coefficients[3])>>

\* (a * y ** 2) + (b * y) + c; y ** 2 is exact
Polynomial(coefficients, y) ==
    FAdd(FAdd(FMul(coefficients[1], y * y), FMul(coefficients[2], y)),
         coefficients[3])

\* self.fitx[y]
fitx(line, y) == Polynomial(Coefficients(line), y)

\* isValid reads line_coefficients as soon as detected is true: on a line
\* built without pixels that attribute does not exist (AttributeError).
MissingAttributes(line) == line.detected /\ line.line_coefficients = <<>>

\* The and-chain, evaluated from the left.  The spread of the slopes is
\* compared with the literal 1.2, the value of SLOPE_TOLERANCE.  In the three
\* last operands abs() is applied to the comparison, not to the slope.
isValid(line) ==
    /\ line.detected = TRUE
    /\ Len(line.line_coefficients) = 3
    /\ line.lane_pixels > MIN_PIXELS_FOR_VALID_LINE
    /\ FLess(FAbs(FSub(line.upper_slope, line.lower_slope)), Tolerance)
    /\ Truthy(AbsOfBool(FLess(line.upper_slope, Tolerance)))
    /\ Truthy(AbsOfBool(FLess(line.mid_slope, Tolerance)))
    /\ Truthy(AbsOfBool(FLess(line.lower_slope, Tolerance)))

----------------------------------------------------------------------------
(* class Frame and the history *)

\* frames are numbered from 1
Frame_oneBased(number) ==
    [frame_number |-> number + 1, left_line |-> None, right_line |-> None]

\* left_line and right_line are None until process_frame sets them
Frame(number) == [frame_number |-> number, left_line |-> None, right_line |-> None]

SideLine(frame, side) == IF side = LEFT THEN frame.left_line[1] ELSE frame.right_line[1]

\* The while loop of getLastValidLines; F[frame_num + 1] is FRAMES[frame_num].
RECURSIVE LastValidLoop(_, _, _, _, _)
LastValidLoop(F, side, frame_num, count, valid_lines) ==
    IF frame_num >= 0 /\ count > 0
    THEN LET prev_frame == F[frame_num + 1]
         IN  IF isValid(SideLine(prev_frame, side))
             THEN LastValidLoop(F, side, frame_num - 1, count - 1,
                                Append(valid_lines, SideLine(prev_frame, side)))
             ELSE LastValidLoop(F, side, frame_num - 1, count, valid_lines)
    ELSE valid_lines

\* the loop with every frame visited using up one of count, valid or not
RECURSIVE LastValidLoop_countAll(_, _, _, _, _)
LastValidLoop_countAll(F, side, frame_num, count, valid_lines) ==
    IF frame_num >= 0 /\ count > 0
    THEN LET prev_frame == F[frame_num + 1]
         IN  IF isValid(SideLine(prev_frame, side))
             THEN LastValidLoop_countAll(F, side, frame_num - 1, count - 1,
                                Append(valid_lines, SideLine(prev_frame, side)))
             ELSE LastValidLoop_countAll(F, side, frame_num - 1, count - 1, valid_lines)
    ELSE valid_lines

\* the walk starts one frame too early
getLastValidLines_skipCurrent(F, fn, side, count) ==
    LastValidLoop(F, side, fn - 1, count, <<>>)

getLastValidLines(F, fn, side, count) == LastValidLoop(F, side, fn, count, <<>>)

----------------------------------------------------------------------------
(* the perspective transform *)

\* cv2.getPerspectiveTransform on the source and destination points scaled
\* by (w, h): the matrix is determined by the direction and by w and h.
PerspectiveMatrix(direction, w, h) == [direction |-> direction, w |-> w, h |-> h]

\* the pair is computed on every call
getPerspectiveTransform_noCache(curM, curM_inv, w, h) ==
    [M     |-> Some(PerspectiveMatrix("forward", w, h)),
     M_inv |-> Some(PerspectiveMatrix("inverse", w, h))]

\* The new values of the globals M and M_inv, which are also the pair returned.
getPerspectiveTransform(curM, curM_inv, w, h) ==
    IF curM = None
    THEN [M     |-> Some(PerspectiveMatrix("forward", w, h)),
          M_inv |-> Some(PerspectiveMatrix("inverse", w, h))]
    ELSE [M |-> curM, M_inv |-> curM_inv]

----------------------------------------------------------------------------
(* find_lane_pixels *)

\* only one missing or invalid previous line does not select the histogram search
UseHistogramSearch_bothInvalid(left_line, right_line) ==
    (left_line = None \/ ~isValid(left_line[1]))
        /\ (right_line = None \/ ~isValid(right_line[1]))

\* The condition of the if: TRUE selects the histogram and sliding window
\* search, FALSE the search around the previous polynomials.
UseHistogramSearch(left_line, right_line) ==
    (left_line = None \/ ~isValid(left_line[1]))
        \/ (right_line = None \/ ~isValid(right_line[1]))

\* np.min(np.absolute(right_fitx - left_fitx)) for the polynomials left and
\* right sampled at y = 0, ..., height - 1
SmallestGap(left, right, height) ==
    FMin({FAbs(FSub(Polynomial(right, y), Polynomial(left, y))) :
             y \in 0 .. (height - 1)})

MinGap(new_left_line, new_right_line) ==
    SmallestGap(Coefficients(new_left_line), Coefficients(new_right_line),
                new_left_line.height)

\* only the left line is invalidated
CrossValidate_leftOnly(new_left_line, new_right_line) ==
    IF /\ isValid(new_left_line)
       /\ isValid(new_right_line)
       /\ FLess(MinGap(new_left_line, new_right_line), LaneGap)
    THEN [left_line  |-> [new_left_line EXCEPT !.detected = FALSE],
          right_line |-> new_right_line]
    ELSE [left_line |-> new_left_line, right_line |-> new_right_line]

\* "validate lines.  Make sure they don't cross each other."
CrossValidate(new_left_line, new_right_line) ==
    IF /\ isValid(new_left_line)
       /\ isValid(new_right_line)
       /\ FLess(MinGap(new_left_line, new_right_line), LaneGap)
    THEN [left_line  |-> [new_left_line EXCEPT !.detected = FALSE],
          right_line |-> [new_right_line EXCEPT !.detected = FALSE]]
    ELSE [left_line |-> new_left_line, right_line |-> new_right_line]

\* an isValid call of the cross-validation reads an attribute that the line
\* does not have
Raises(new_left_line, new_right_line) ==
    \/ MissingAttributes(new_left_line)
    \/ isValid(new_left_line) /\ MissingAttributes(new_right_line)

\* find_lane_pixels from the two new lines on: what it returns, or the lines
\* it was checking when the exception was raised
ValidateLines(search, new_left_line, new_right_line) ==
    IF Raises(new_left_line, new_right_line)
    THEN [strategy |-> search, raised |-> TRUE,
          left_line |-> new_left_line, right_line |-> new_right_line]
    ELSE [strategy |-> search, raised |-> FALSE]
             @@ CrossValidate(new_left_line, new_right_line)

\* pixels.left and pixels.right are what the selected search finds for the
\* two sides.
find_lane_pixels(height, pixels, left_line, right_line) ==
    ValidateLines(IF UseHistogramSearch(left_line, right_line) THEN "cold" ELSE "warm",
                  Line(pixels.left, height, TRUE),
                  Line(pixels.right, height, TRUE))

----------------------------------------------------------------------------
(* process_frame *)

RECURSIVE SumCoefficients(_)
SumCoefficients(lines) ==
    IF lines = <<>>
    THEN <<0, 0, 0>>
    ELSE LET c    == Head(lines).line_coefficients
             rest == SumCoefficients(Tail(lines))
         IN  <<c[1] + rest[1], c[2] + rest[2], c[3] + rest[3]>>

\* np.mean(coeffs, axis = 0), as the exact fraction sum / n per coefficient
mean(lines) == [sum |-> SumCoefficients(lines), n |-> Len(lines)]

\* the lines of the last 7 frames that are valid
LinesToAverage_lastFrames(F, number, side) ==
    LastValidLoop_countAll(F, side, number, AVERAGE_OVER_X_FRAMES, <<>>)

\* the walk over the frames before the current one
LinesToAverage_earlierFrames(F, number, side) ==
    LastValidLoop(F, side, number - 1, AVERAGE_OVER_X_FRAMES, <<>>)

\* valid_left_lines and valid_right_lines
LinesToAverage(F, number, side) ==
    getLastValidLines(F, number, side, AVERAGE_OVER_X_FRAMES)

\* avg_curve takes line.curvature of every left line, then of every right
\* line: the lines whose curvatures are averaged, in the order appended
CurvatureLines(left_lines, right_lines) == left_lines \o right_lines

\* np.mean(avg_curve) is inf as soon as one curvature is, and int() of it
\* raises OverflowError
InfiniteMean(lines) == \E i \in 1..Len(lines) : lines[i].curvature = "inf"

\* FRAMES.append(frame)
RecordFrame(F, frame) == Append(F, frame)

\* current_left_line and current_right_line, when last_valid is not empty
Fallback(line, last_valid) == IF isValid(line) THEN line ELSE last_valid[1]

\* left_line or right_line of the frame before frame number, None at frame 0
PreviousLine(F, number, side) ==
    IF number > 0
    THEN IF side = LEFT THEN F[number].left_line ELSE F[number].right_line
    ELSE None

\* process_frame once warp_image and find_lane_pixels have returned: pt1 is
\* the pair of matrices of the first warp_image, lanes what find_lane_pixels
\* returned.  A call that raises leaves the globals as they are at the raise
\* and no locals.
TrackLines(st, frame, pt1, lanes) ==
    LET number == st.frame_number + 1
        new_frame == [Frame(number) EXCEPT !.left_line  = Some(lanes.left_line),
                                           !.right_line = Some(lanes.right_line)]
        F1 == RecordFrame(st.FRAMES, new_frame)
        last_left  == getLastValidLines(F1, number, LEFT, 1)
        last_right == getLastValidLines(F1, number, RIGHT, 1)
        \* valid_left_lines and valid_right_lines
        left_lines  == LinesToAverage(F1, number, LEFT)
        right_lines == LinesToAverage(F1, number, RIGHT)
        \* fillLane: newwarp = warp_image(color_warp, True)
        pt2 == getPerspectiveTransform(pt1.M, pt1.M_inv, frame.w, frame.h)
        common == [frame_number |-> number,
                   first_call   |-> IF st.first_call = None
                                    THEN Some(<<frame.w, frame.h>>)
                                    ELSE st.first_call,
                   found        |-> Some(frame)]
        failed(FR, what, pt, pts) ==
            common @@ [FRAMES |-> FR, M |-> pt.M, M_inv |-> pt.M_inv,
                       result |-> what, strategy |-> lanes.strategy,
                       returned |-> pts,
                       current_left_line |-> None, current_right_line |-> None,
                       avg_left |-> None, avg_right |-> None,
                       valid_left_lines |-> None, valid_right_lines |-> None,
                       avg_curve |-> None]
    IN  IF lanes.raised
        THEN failed(st.FRAMES, "AttributeError", pt1, <<pt1>>)
        ELSE IF ~isValid(lanes.left_line) /\ last_left = <<>>
        THEN failed(F1, "IndexError", pt1, <<pt1>>)
        ELSE IF MissingAttributes(lanes.right_line)
        THEN failed(F1, "AttributeError", pt1, <<pt1>>)
        ELSE IF ~isValid(lanes.right_line) /\ last_right = <<>>
        THEN failed(F1, "IndexError", pt1, <<pt1>>)
        \* average_line_curvature = int(np.mean(avg_curve)), after fillLane
        ELSE IF InfiniteMean(CurvatureLines(left_lines, right_lines))
        THEN failed(F1, "OverflowError", pt2, <<pt1, pt2>>)
        ELSE common @@ [FRAMES |-> F1, M |-> pt2.M, M_inv |-> pt2.M_inv,
                        result |-> "ok", strategy |-> lanes.strategy,
                        returned |-> <<pt1, pt2>>,
                        current_left_line  |-> Some(Fallback(lanes.left_line, last_left)),
                        current_right_line |-> Some(Fallback(lanes.right_line, last_right)),
                        avg_left  |-> Some(mean(left_lines)),
                        avg_right |-> Some(mean(right_lines)),
                        valid_left_lines  |-> Some(left_lines),
                        valid_right_lines |-> Some(right_lines),
                        avg_curve |-> Some(CurvatureLines(left_lines, right_lines))]

\* The state after process_frame(frame), from the state st before it.
process_frame(st, frame) ==
    TrackLines(st, frame,
               \* warped = warp_image(roi)
               getPerspectiveTransform(st.M, st.M_inv, frame.w, frame.h),
               find_lane_pixels(frame.h, frame,
                                PreviousLine(st.FRAMES, st.frame_number + 1, LEFT),
                                PreviousLine(st.FRAMES, st.frame_number + 1, RIGHT)))

----------------------------------------------------------------------------
(* frames *)

\* the largest image height of the model; the heights are MaxHeight - 1 and MaxHeight
MaxHeight == 5

\* the number of frames of a video
MaxFrames == 6

\* the number of frames of a long video, longer than the averaging window
MaxLongFrames == 9

SmallSize == <<8, MaxHeight - 1>>

LargeSize == <<10, MaxHeight>>

\* What np.polyfit can return as world_poly[0] for the points of the
\* polynomial a, b, c: for a parabola a number other than 0.0, for the zero
\* polynomial 0.0, and for any other straight line either, by the rounding
\* of the least-squares solver.
WorldFits(a, b, c) ==
    IF a # 0 THEN {"nonzero"}
    ELSE IF b = 0 /\ c = 0 THEN {"zero"}
    ELSE {"zero", "nonzero"}

Pixels(n, a, b, c, world_poly) ==
    [n |-> n, fit |-> <<a, b, c>>, world_poly |-> world_poly]

NoPixels == [n |-> 0, fit |-> <<>>, world_poly |-> "unset"]

FrameInput(size, left, right) ==
    [w |-> size[1], h |-> size[2], left |-> left, right |-> right]

\* two plausible lines, 400 pixels apart
BothFound ==
    FrameInput(SmallSize, Pixels(3001, 0, 1, 2000, "nonzero"),
               Pixels(3500, 0, -1, 6000, "nonzero"))

\* a curved left line, nothing on the right
RightEmpty ==
    FrameInput(LargeSize, Pixels(4000, 1, 0, 2100, "nonzero"), NoPixels)

\* a left line of exactly 3000 pixels
LeftSparse ==
    FrameInput(SmallSize, Pixels(3000, 0, 2, 2200, "nonzero"),
               Pixels(3200, 0, 3, 6100, "nonzero"))

\* two plausible lines, 200 pixels apart
TooClose ==
    FrameInput(LargeSize, Pixels(3100, 0, 0, 3000, "nonzero"),
               Pixels(3100, 0, 0, 5000, "nonzero"))

\* two plausible lines in a large frame, the right one curved
BothFoundLarge ==
    FrameInput(LargeSize, Pixels(3300, 0, -2, 1900, "nonzero"),
               Pixels(3400, 1, 1, 5900, "nonzero"))

\* a left line of slope 1.3
LeftSteep ==
    FrameInput(SmallSize, Pixels(5000, 0, 13, 2000, "nonzero"),
               Pixels(3600, 0, 0, 6200, "nonzero"))

\* a left line down the left edge of the image, where fitx is 0.0 throughout
LeftEdge ==
    FrameInput(SmallSize, Pixels(3001, 0, 0, 0, "zero"),
               Pixels(3001, 0, 0, 4000, "nonzero"))

VideoFrames ==
    {BothFound, BothFoundLarge, RightEmpty, LeftSparse, LeftSteep, TooClose,
     LeftEdge}

\* the frames of the long videos
LongVideoFrames == {BothFound, RightEmpty, LeftSparse, TooClose}

\* the pixels of S with a world_poly[0] that polyfit can return for them
Fitted(S) ==
    {p \in S : p.world_poly \in WorldFits(p.fit[1], p.fit[2], p.fit[3])}

\* What a search can find for the left side.  The lines of the second set
\* start at 61.4, which float64 does not hold exactly; those of the third
\* have slopes that differ by 1.2 between the top and the bottom of a frame
\* of SmallSize; the last is the line down the left edge.
WideLeft ==
    {NoPixels}
    \cup Fitted({Pixels(n, a, b, 1000, z) :
                    n \in {1, 3000, 3001}, a \in {-1, 0, 1},
                    b \in {-50, -12, 0, 11, 12}, z \in {"zero", "nonzero"}})
    \cup Fitted({Pixels(3001, a, b, 614, z) :
                    a \in {0, 1}, b \in {0, 11}, z \in {"zero", "nonzero"}})
    \cup {Pixels(3001, -2, -29, 1000, "nonzero"),
          Pixels(3001, 2, -24, 1000, "nonzero"), Pixels(3001, 0, 0, 0, "zero")}

\* What a search can find for the right side: the lines start 299.9, 300
\* and 300.1 pixels to the right of the left ones that start at 100, and
\* 300 pixels to the right of those that start at 61.4.
WideRight ==
    {NoPixels}
    \cup Fitted({Pixels(n, a, b, c, z) :
                    n \in {3000, 3001}, a \in {0, 1}, b \in {-50, 0, 11, 12},
                    c \in {3999, 4000, 4001}, z \in {"zero", "nonzero"}})
    \cup Fitted({Pixels(3001, a, b, 3614, z) :
                    a \in {0, 1}, b \in {0, 11}, z \in {"zero", "nonzero"}})

WideFrames ==
    {FrameInput(size, left, right) :
        size \in {SmallSize, LargeSize}, left \in WideLeft, right \in WideRight}

----------------------------------------------------------------------------
(* the program *)

\* the module's globals as the script sets them, before any frame
Start ==
    [FRAMES |-> <<>>, frame_number |-> -1, M |-> None, M_inv |-> None,
     first_call |-> None, result |-> "idle", strategy |-> "none",
     found |-> None, returned |-> <<>>,
     current_left_line |-> None, current_right_line |-> None,
     avg_left |-> None, avg_right |-> None,
     valid_left_lines |-> None, valid_right_lines |-> None, avg_curve |-> None]

State ==
    [FRAMES |-> FRAMES, frame_number |-> frame_number, M |-> M, M_inv |-> M_inv,
     first_call |-> first_call, result |-> result, strategy |-> strategy,
     found |-> found, returned |-> returned,
     current_left_line |-> current_left_line,
     current_right_line |-> current_right_line,
     avg_left |-> avg_left, avg_right |-> avg_right,
     valid_left_lines |-> valid_left_lines, valid_right_lines |-> valid_right_lines,
     avg_curve |-> avg_curve]

Is(st) ==
    /\ FRAMES = st.FRAMES
    /\ frame_number = st.frame_number
    /\ M = st.M
    /\ M_inv = st.M_inv
    /\ first_call = st.first_call
    /\ result = st.result
    /\ strategy = st.strategy
    /\ found = st.found
    /\ returned = st.returned
    /\ current_left_line = st.current_left_line
    /\ current_right_line = st.current_right_line
    /\ avg_left = st.avg_left
    /\ avg_right = st.avg_right
    /\ valid_left_lines = st.valid_left_lines
    /\ valid_right_lines = st.valid_right_lines
    /\ avg_curve = st.avg_curve

Becomes(st) ==
    /\ FRAMES' = st.FRAMES
    /\ frame_number' = st.frame_number
    /\ M' = st.M
    /\ M_inv' = st.M_inv
    /\ first_call' = st.first_call
    /\ result' = st.result
    /\ strategy' = st.strategy
    /\ found' = st.found
    /\ returned' = st.returned
    /\ current_left_line' = st.current_left_line
    /\ current_right_line' = st.current_right_line
    /\ avg_left' = st.avg_left
    /\ avg_right' = st.avg_right
    /\ valid_left_lines' = st.valid_left_lines
    /\ valid_right_lines' = st.valid_right_lines
    /\ avg_curve' = st.avg_curve

Init == Is(Start)

\* video_clip calls process_frame on the frames in order.  An exception of
\* process_frame is not caught: no frame follows it.
ProcessFrame(frame, frames) ==
    /\ result \in {"idle", "ok"}
    /\ Len(FRAMES) < frames
    /\ Becomes(process_frame(State, frame))

Next == \E frame \in VideoFrames : ProcessFrame(frame, MaxFrames)

Spec == Init /\ [][Next]_vars

NextLong == \E frame \in LongVideoFrames : ProcessFrame(frame, MaxLongFrames)

\* the same program on long videos
SpecLong == Init /\ [][NextLong]_vars

----------------------------------------------------------------------------
(* one call of process_frame, on every frame of WideFrames *)

\* The next frame of the video: an exception of process_frame is not caught
\* and ends the script, so no frame is processed after a call that raised.
PlayFrame(st, frame) ==
    IF st.result \in {"idle", "ok"} THEN process_frame(st, frame) ELSE st

\* the state after the video frames, or after its first call that raises
RECURSIVE Replay(_)
Replay(frames) ==
    IF frames = <<>>
    THEN Start
    ELSE PlayFrame(Replay(SubSeq(frames, 1, Len(frames) - 1)), frames[Len(frames)])

\* the videos played before the call; none of them raises
Histories == {<<>>, <<BothFound>>, <<BothFound, RightEmpty>>, <<BothFound, TooClose>>}

\* the globals after a video of Histories that played to its end; the call
\* has not been made
InitFit ==
    \E frames \in {h \in Histories : Replay(h).result \in {"idle", "ok"}} :
        Is([Replay(frames) EXCEPT
                !.result = "idle", !.strategy = "none", !.found = None,
                !.returned = <<>>,
                !.current_left_line = None, !.current_right_line = None,
                !.avg_left = None, !.avg_right = None,
                !.valid_left_lines = None, !.valid_right_lines = None,
                !.avg_curve = None])

ProcessFrameOnce(frame) ==
    /\ result = "idle"
    /\ Becomes(process_frame(State, frame))

NextFit == \E frame \in WideFrames : ProcessFrameOnce(frame)

SpecFit == InitFit /\ [][NextFit]_vars

----------------------------------------------------------------------------
(* properties *)

\* the largest count asked of getLastValidLines in the properties
MaxCount == 8

LastFrame == FRAMES[Len(FRAMES)]

\* the positions in FRAMES whose line of the side is valid
ValidAt(side) == {i \in 1 .. Len(FRAMES) : isValid(SideLine(FRAMES[i], side))}

\* the r-th largest position of the set
FromEnd(positions, r) ==
    CHOOSE i \in positions : Cardinality({k \in positions : k >= i}) = r

\* the valid lines of the side, the most recent first
ValidLines(side) ==
    LET valid == ValidAt(side)
    IN  [r \in 1 .. Cardinality(valid) |-> SideLine(FRAMES[FromEnd(valid, r)], side)]

Smaller(a, b) == IF a < b THEN a ELSE b

\* C1: process_frame has no failure mode: every call returns normally, also
\* when a side has no valid line anywhere in the history.
C1_NoFailure == result \in {"idle", "ok"}

\* C2: FRAMES is an append-only log with one record per processed frame:
\* len(FRAMES) = frame_number + 1, the record at position i has frame number
\* i, every call appends exactly one record and leaves the records already
\* there as they are.
C2_AppendOnly ==
    /\ [](/\ Len(FRAMES) = frame_number + 1
          /\ \A i \in 1 .. Len(FRAMES) : FRAMES[i].frame_number = i - 1)
    /\ [][/\ Len(FRAMES') = Len(FRAMES) + 1
          /\ SubSeq(FRAMES', 1, Len(FRAMES)) = FRAMES]_vars

\* a third or later frame whose two lines are both invalid is in the log
C2_Witness ==
    /\ Len(FRAMES) >= 3
    /\ ~isValid(LastFrame.left_line[1])
    /\ ~isValid(LastFrame.right_line[1])

\* C3: the search around the previous polynomials is used exactly when both
\* lines stored for the frame before are valid; otherwise, and for frame 0,
\* the histogram search is used, whatever older frames hold.
C3_Strategy ==
    result # "idle" =>
        /\ strategy \in {"cold", "warm"}
        /\ strategy = "warm" <=>
              /\ Len(FRAMES) >= 2
              /\ isValid(FRAMES[Len(FRAMES) - 1].left_line[1])
              /\ isValid(FRAMES[Len(FRAMES) - 1].right_line[1])

\* the histogram search was used although two frames back both lines were valid
C3_Witness ==
    /\ result = "ok"
    /\ strategy = "cold"
    /\ Len(FRAMES) >= 3
    /\ isValid(FRAMES[Len(FRAMES) - 2].left_line[1])
    /\ isValid(FRAMES[Len(FRAMES) - 2].right_line[1])
    /\ isValid(FRAMES[Len(FRAMES) - 1].left_line[1])
    /\ ~isValid(FRAMES[Len(FRAMES) - 1].right_line[1])

\* the validity the specification states, with the absolute value of each slope
StatedValid(line) ==
    /\ line.detected
    /\ line.lane_pixels > 3000
    /\ FLess(FAbs(line.upper_slope), Tolerance)
    /\ FLess(FAbs(line.mid_slope), Tolerance)
    /\ FLess(FAbs(line.lower_slope), Tolerance)
    /\ FLess(FAbs(FSub(line.upper_slope, line.lower_slope)), Tolerance)

\* C4: isValid() is true exactly when detected is true, there are more than
\* 3000 pixels, the absolute value of the upper, middle and lower slope is
\* below 1.2 and the upper and lower slope differ by less than 1.2.
C4_isValid ==
    \A i \in 1 .. Len(FRAMES) : \A side \in Side :
        isValid(SideLine(FRAMES[i], side)) <=> StatedValid(SideLine(FRAMES[i], side))

\* the two lines as fitted from the pixels of the last call, before the
\* cross-validation
FittedLine(side) ==
    Line(IF side = LEFT THEN found[1].left ELSE found[1].right, found[1].h, TRUE)

\* some sampled y has the two fitted lines less than 300 pixels apart
GapBelowFloor ==
    \E y \in 0 .. (found[1].h - 1) :
        FLess(FAbs(FSub(fitx(FittedLine(RIGHT), y), fitx(FittedLine(LEFT), y))),
              LaneGap)

\* C5: if both fitted lines are valid and their smallest gap over the sampled
\* y is below 300 pixels, both returned lines have detected = False and are
\* invalid; otherwise the cross-validation changes neither line.  Never is
\* exactly one of the two invalidated.
C5_CrossValidation ==
    result # "idle" =>
        /\ IF isValid(FittedLine(LEFT)) /\ isValid(FittedLine(RIGHT)) /\ GapBelowFloor
           THEN /\ LastFrame.left_line[1].detected = FALSE
                /\ LastFrame.right_line[1].detected = FALSE
                /\ ~isValid(LastFrame.left_line[1])
                /\ ~isValid(LastFrame.right_line[1])
           ELSE /\ LastFrame.left_line[1] = FittedLine(LEFT)
                /\ LastFrame.right_line[1] = FittedLine(RIGHT)
        /\ (LastFrame.left_line[1].detected # FittedLine(LEFT).detected)
              <=> (LastFrame.right_line[1].detected # FittedLine(RIGHT).detected)

\* Two valid fitted lines too close to each other were both invalidated: the
\* two polynomials differ by 300.0 in the constant coefficient only, and the
\* smallest gap of the sampled x values is 299.99999999999994.
C5_Witness ==
    /\ result # "idle"
    /\ isValid(FittedLine(LEFT))
    /\ isValid(FittedLine(RIGHT))
    /\ found[1].left.fit[1] = found[1].right.fit[1]
    /\ found[1].left.fit[2] = found[1].right.fit[2]
    /\ found[1].right.fit[3] - found[1].left.fit[3] = 3000
    /\ GapBelowFloor
    /\ ~LastFrame.left_line[1].detected
    /\ ~LastFrame.right_line[1].detected

\* C6: getLastValidLines(side, count) returns the min(count, V) most recent
\* valid lines of the side among frames 0 .. frame_number, most recent
\* first, where V is the number of frames whose line of the side is valid.
C6_LastValid ==
    \A side \in Side :
        LET expected == ValidLines(side)
        IN  \A count \in 1 .. MaxCount :
                LET lines == getLastValidLines(FRAMES, frame_number, side, count)
                IN  /\ Len(lines) = Smaller(count, Len(expected))
                    /\ \A r \in 1 .. Len(lines) : lines[r] = expected[r]

\* the left line of the last frame is invalid, an invalid left line lies
\* between two valid ones, and two valid left lines are returned
C6_Witness ==
    /\ result = "ok"
    /\ ~isValid(LastFrame.left_line[1])
    /\ \E i, k, j \in 1 .. Len(FRAMES) :
          /\ i < k /\ k < j
          /\ isValid(FRAMES[i].left_line[1])
          /\ ~isValid(FRAMES[k].left_line[1])
          /\ isValid(FRAMES[j].left_line[1])
    /\ Len(getLastValidLines(FRAMES, frame_number, LEFT, 2)) = 2

\* the positions of the 7 most recent valid lines of the side
Window(side) ==
    LET valid == ValidAt(side)
    IN  {i \in valid : Cardinality({k \in valid : k >= i}) <= 7}

RECURSIVE SumAt(_, _)
SumAt(side, positions) ==
    IF positions = {}
    THEN <<0, 0, 0>>
    ELSE LET i    == CHOOSE p \in positions : TRUE
             c    == SideLine(FRAMES[i], side).line_coefficients
             rest == SumAt(side, positions \ {i})
         IN  <<c[1] + rest[1], c[2] + rest[2], c[3] + rest[3]>>

\* C7: the smoothed estimate of a side is the coefficient-wise mean of
\* exactly the up to 7 most recent valid lines of that side; older valid
\* lines and invalid lines do not enter it.
C7_Smoothed ==
    result = "ok" =>
        LET left  == Window(LEFT)
            right == Window(RIGHT)
        IN  /\ avg_left = Some([sum |-> SumAt(LEFT, left), n |-> Cardinality(left)])
            /\ avg_right = Some([sum |-> SumAt(RIGHT, right), n |-> Cardinality(right)])

\* more than 7 valid left lines, the oldest with other coefficients than the
\* 7 averaged, and an invalid left line among the frames of the 7
C7_Witness ==
    /\ result = "ok"
    /\ Cardinality(ValidAt(LEFT)) > 7
    /\ \E i \in ValidAt(LEFT) \ Window(LEFT) : \A j \in Window(LEFT) :
          FRAMES[i].left_line[1].line_coefficients
              # FRAMES[j].left_line[1].line_coefficients
    /\ \E k \in 1 .. Len(FRAMES) : \E j \in Window(LEFT) :
          j < k /\ ~isValid(FRAMES[k].left_line[1])

\* the line the fallback rule names for the side in the last frame
StatedCurrent(side) ==
    LET earlier == {i \in ValidAt(side) : i < Len(FRAMES)}
    IN  IF isValid(SideLine(LastFrame, side))
        THEN Some(SideLine(LastFrame, side))
        ELSE IF earlier = {}
        THEN None
        ELSE Some(SideLine(FRAMES[CHOOSE i \in earlier : \A k \in earlier : k <= i], side))

\* C8: in every frame the line used for the offset is, per side, the
\* frame's own line when valid and else the most recent valid line of that
\* side from earlier frames, and the smoothed average is computed in every
\* frame whether or not the frame's lines are valid.
C8_Fallback ==
    result # "idle" =>
        /\ avg_left # None
        /\ avg_right # None
        /\ current_left_line = StatedCurrent(LEFT)
        /\ current_right_line = StatedCurrent(RIGHT)

\* C9: a side for which the search selects no pixel gets a line with
\* detected = False that is not valid, nothing is raised in find_lane_pixels,
\* and the line of the other side is fitted and judged on its own.
C9_EmptyDetection ==
    result # "idle" =>
        /\ result # "AttributeError"
        /\ Len(FRAMES) = frame_number + 1
        /\ found[1].left.n = 0 =>
              /\ LastFrame.left_line[1].detected = FALSE
              /\ ~isValid(LastFrame.left_line[1])
              /\ LastFrame.right_line[1] = FittedLine(RIGHT)
        /\ found[1].right.n = 0 =>
              /\ LastFrame.right_line[1].detected = FALSE
              /\ ~isValid(LastFrame.right_line[1])
              /\ LastFrame.left_line[1] = FittedLine(LEFT)

\* the search around the previous polynomials found nothing on the right
\* and a valid line on the left
C9_Witness ==
    /\ result = "ok"
    /\ strategy = "warm"
    /\ found[1].right.n = 0
    /\ isValid(LastFrame.left_line[1])

\* C10: M and M_inv are computed once, by the first call of
\* getPerspectiveTransform, from that call's width and height; every later
\* call returns that pair and leaves M and M_inv as they are.
C10_Cache ==
    /\ [](IF first_call = None
          THEN M = None /\ M_inv = None
          ELSE /\ M = Some(PerspectiveMatrix("forward", first_call[1][1], first_call[1][2]))
               /\ M_inv = Some(PerspectiveMatrix("inverse", first_call[1][1], first_call[1][2]))
               /\ \A i \in 1 .. Len(returned) :
                     returned[i] = [M |-> M, M_inv |-> M_inv])
    /\ [][M # None => (M' = M /\ M_inv' = M_inv)]_vars

\* a frame of another size than the first one went through both calls
C10_Witness ==
    /\ Len(FRAMES) >= 2
    /\ Len(returned) = 2
    /\ first_call # None
    /\ <<found[1].w, found[1].h>> # first_call[1]
    /\ M = Some(PerspectiveMatrix("forward", first_call[1][1], first_call[1][2]))

\* all lines of the sequence are valid
AllValid(lines) == \A r \in 1 .. Len(lines) : isValid(lines[r])

\* C11: whenever process_frame gets to the averaging step, the lines
\* averaged for each side are at least 1 and at most 7, all valid, and hold
\* the line of the current frame whenever that line is valid; the curvature
\* mean is over at least 2 and at most 14 values and no mean is over nothing.
C11_Averaged ==
    result = "ok" =>
        /\ valid_left_lines # None /\ valid_right_lines # None /\ avg_curve # None
        /\ Len(valid_left_lines[1]) >= 1 /\ Len(valid_left_lines[1]) <= 7
        /\ Len(valid_right_lines[1]) >= 1 /\ Len(valid_right_lines[1]) <= 7
        /\ AllValid(valid_left_lines[1])
        /\ AllValid(valid_right_lines[1])
        /\ isValid(LastFrame.left_line[1]) =>
              \E r \in 1 .. Len(valid_left_lines[1]) :
                  valid_left_lines[1][r] = LastFrame.left_line[1]
        /\ isValid(LastFrame.right_line[1]) =>
              \E r \in 1 .. Len(valid_right_lines[1]) :
                  valid_right_lines[1][r] = LastFrame.right_line[1]
        /\ avg_left[1].n >= 1
        /\ avg_right[1].n >= 1
        /\ Len(avg_curve[1]) >= 2 /\ Len(avg_curve[1]) <= 14

\* 7 left lines are averaged although more are valid, the current one among
\* them, while the current right line is invalid and older ones are averaged
C11_Witness ==
    /\ result = "ok"
    /\ Cardinality(ValidAt(LEFT)) > 7
    /\ Len(valid_left_lines[1]) = 7
    /\ valid_left_lines[1][1] = LastFrame.left_line[1]
    /\ ~isValid(LastFrame.right_line[1])
    /\ Len(valid_right_lines[1]) >= 1
    /\ Len(avg_curve[1]) = 7 + Len(valid_right_lines[1])

====
